---- MODULE Spec2Model ----
(***************************************************************************)
(* Model of cf/gridmappings.py: the conversion between PROJ angular data   *)
(* components (text) and cf.Data values with CF units, the assembly of     *)
(* proj-strings, and the grid mapping classes.                             *)
(*                                                                         *)
(* A text is a sequence of one-character strings.  A number is a record    *)
(*   [kind, neg, m, e, conv]                                               *)
(* kind "int":   the Python int  (-1)^neg * m               (e = 0)        *)
(* kind "float": the Python float (-1)^neg * m * 10^(-e), with m not a     *)
(*               multiple of 10 unless m = 0 (then e = 0); neg keeps the   *)
(*               sign of a float zero.  A decimal numeral of at most 15    *)
(*               significant digits and the double nearest to it determine *)
(*               each other, so the double is identified with (m, e).      *)
(* conv = "rad2deg" marks a float that is the product of the number        *)
(* written and 180/pi (the result of Units.conform from radians to         *)
(* degrees); conv = "none" otherwise.                                      *)
(***************************************************************************)
EXTENDS Integers, Sequences, FiniteSets, TLC

VARIABLES op, proj_data, context, data, cf_out, proj_out, raised,
          mapping, new, gms, proj_strings, eq_out, hash_out,
          calls, locals, heap, module_level

\* The state of the calls made one at a time.
svars == <<op, proj_data, context, data, cf_out, proj_out, raised,
           mapping, new, gms, proj_strings, eq_out, hash_out>>

\* The state of the calls made by threads: the call of each thread and
\* the line it has reached, the local variables of the frames, the Data
\* objects that the callers hold, and the names bound at module level.
tvars == <<calls, locals, heap, module_level>>

vars == <<svars, tvars>>

(***************************************************************************)
(* Bounds of the model.                                                    *)
(***************************************************************************)
MaxLen == 3       \* length of the texts over the whole alphabet
MaxNumLen == 7    \* length of the digit-and-point body of a long numeral
MaxMant == 11     \* largest mantissa of a number given to the encoder
MaxExp == 17      \* largest decimal exponent (either sign) of such a float
MaxSize == 2      \* largest element count of a Data given to the encoder
MaxEntries == 2   \* largest entry count of a mapping given to the assembly
MaxArgs == 3      \* largest count of keyword arguments of a constructor call

(***************************************************************************)
(* Python values.                                                          *)
(***************************************************************************)
None == "<None>"
NoUnits == ""     \* a Units object with no units set: falsy

DigitChars == {"0", "1", "2", "3", "4", "5", "6", "7", "8", "9"}

DigitVal(c) ==
  CASE c = "0" -> 0 [] c = "1" -> 1 [] c = "2" -> 2 [] c = "3" -> 3
    [] c = "4" -> 4 [] c = "5" -> 5 [] c = "6" -> 6 [] c = "7" -> 7
    [] c = "8" -> 8 [] c = "9" -> 9

DigitChar(d) ==
  CASE d = 0 -> "0" [] d = 1 -> "1" [] d = 2 -> "2" [] d = 3 -> "3"
    [] d = 4 -> "4" [] d = 5 -> "5" [] d = 6 -> "6" [] d = 7 -> "7"
    [] d = 8 -> "8" [] d = 9 -> "9"

RECURSIVE Zeros(_)
Zeros(n) == IF n <= 0 THEN <<>> ELSE <<"0">> \o Zeros(n - 1)

\* The decimal digits of a natural number, most significant first.
RECURSIVE DecDigits(_)
DecDigits(n) ==
  IF n < 10 THEN <<DigitChar(n)>>
  ELSE DecDigits(n \div 10) \o <<DigitChar(n % 10)>>

\* The value of a run of decimal digits (leading zeros allowed).
RECURSIVE DigitsValue(_)
DigitsValue(s) ==
  IF s = <<>> THEN 0
  ELSE 10 * DigitsValue(SubSeq(s, 1, Len(s) - 1)) + DigitVal(s[Len(s)])

\* The float m * 10^(-e) in its normal form.
RECURSIVE NormalFloat(_, _, _)
NormalFloat(neg, m, e) ==
  IF m = 0 THEN [kind |-> "float", neg |-> neg, m |-> 0, e |-> 0, conv |-> "none"]
  ELSE IF m % 10 = 0 THEN NormalFloat(neg, m \div 10, e - 1)
  ELSE [kind |-> "float", neg |-> neg, m |-> m, e |-> e, conv |-> "none"]

(***************************************************************************)
(* Python's int(), float() and str() on the numerals and numbers used.     *)
(***************************************************************************)
\* int(value), value being -?\d+ : "-0" is the int 0.
py_int(value) ==
  LET neg == value /= <<>> /\ value[1] = "-"
      ds == IF neg THEN SubSeq(value, 2, Len(value)) ELSE value
      m == DigitsValue(ds)
  IN [kind |-> "int", neg |-> neg /\ m /= 0, m |-> m, e |-> 0, conv |-> "none"]

\* float(value), value being -?\d+(\.\d*)? : "-0." is the float -0.0.
py_float(value) ==
  LET neg == value /= <<>> /\ value[1] = "-"
      ds == IF neg THEN SubSeq(value, 2, Len(value)) ELSE value
      dots == {i \in 1..Len(ds) : ds[i] = "."}
      dot == IF dots = {} THEN Len(ds) + 1 ELSE CHOOSE i \in dots : TRUE
      whole == SubSeq(ds, 1, dot - 1)
      frac == SubSeq(ds, dot + 1, Len(ds))
      all == whole \o frac
      nonzero == {i \in 1..Len(all) : all[i] /= "0"}
      last == IF nonzero = {} THEN 0
              ELSE CHOOSE i \in nonzero : \A k \in nonzero : k <= i
  IN NormalFloat(neg, DigitsValue(SubSeq(all, 1, last)),
                 Len(frac) - (Len(all) - last))

\* repr of a finite float: the shortest digits ds that give the float back,
\* with the decimal point after the first decpt of them; positional when
\* -4 < decpt <= 16 and in exponent form otherwise.
float_repr(x) ==
  LET sign == IF x.neg THEN <<"-">> ELSE <<>>
      ds == DecDigits(x.m)
      n == Len(ds)
      decpt == n - x.e
      ex == decpt - 1
      exdigits == DecDigits(IF ex < 0 THEN -ex ELSE ex)
  IN IF x.m = 0 THEN sign \o <<"0", ".", "0">>
     ELSE IF decpt > 16 \/ decpt < -3
       THEN sign \o <<ds[1]>>
            \o (IF n > 1 THEN <<".">> \o SubSeq(ds, 2, n) ELSE <<>>)
            \o <<"e", IF ex < 0 THEN "-" ELSE "+">>
            \o (IF Len(exdigits) < 2 THEN <<"0">> ELSE <<>>) \o exdigits
     ELSE IF decpt <= 0 THEN sign \o <<"0", ".">> \o Zeros(-decpt) \o ds
     ELSE IF decpt >= n THEN sign \o ds \o Zeros(decpt - n) \o <<".", "0">>
     ELSE sign \o SubSeq(ds, 1, decpt) \o <<".">> \o SubSeq(ds, decpt + 1, n)

\* f"{x:g}" in place of f"{x}": a float with no fraction loses its ".0".
py_str_g(x) ==
  CASE x.kind = "int" -> (IF x.neg THEN <<"-">> ELSE <<>>) \o DecDigits(x.m)
    [] x.kind = "float" ->
         IF x.e <= 0 /\ Len(DecDigits(x.m)) - x.e <= 16
         THEN (IF x.neg THEN <<"-">> ELSE <<>>) \o DecDigits(x.m) \o Zeros(-x.e)
         ELSE float_repr(x)

\* f"{x}" for the Python number x that array.item() returns.
py_str(x) ==
  CASE x.kind = "int" -> (IF x.neg THEN <<"-">> ELSE <<>>) \o DecDigits(x.m)
    [] x.kind = "float" -> float_repr(x)

(***************************************************************************)
(* convert_proj_angular_data_to_cf                                         *)
(***************************************************************************)
NoException == [type |-> "none", msg |-> ""]

\* The end of the longest run of digits of s that starts at position i.
DigitsEnd(s, i) ==
  CHOOSE j \in i..(Len(s) + 1) :
    /\ \A k \in i..(j - 1) : s[k] \in DigitChars
    /\ j = Len(s) + 1 \/ s[j] \notin DigitChars

\* re.match in place of re.fullmatch: the text need only start with a match.
valid_form_match(s) ==
  LET n == Len(s)
      i == IF n >= 1 /\ s[1] = "-" THEN 2 ELSE 1
      j == DigitsEnd(s, i)
      point == j <= n /\ s[j] = "."
      k == IF point THEN DigitsEnd(s, j + 1) ELSE j
      tail == k <= n /\ s[k] \in {"r", "R", "d", "D", "°"}
  IN IF j > i
     THEN << [value |-> SubSeq(s, 1, k - 1),
              float_comp |-> IF point THEN SubSeq(s, j, k - 1) ELSE <<>>,
              suffix |-> IF tail THEN <<s[k]>> ELSE <<>>] >>
     ELSE <<>>

\* The pattern with (\.\d+)? in place of (\.\d*)? .
valid_form_digit_after_point(s) ==
  LET n == Len(s)
      i == IF n >= 1 /\ s[1] = "-" THEN 2 ELSE 1
      j == DigitsEnd(s, i)
      point == j <= n /\ s[j] = "." /\ DigitsEnd(s, j + 1) > j + 1
      k == IF point THEN DigitsEnd(s, j + 1) ELSE j
      tail == k <= n /\ s[k] \in {"r", "R", "d", "D", "°"}
      l == IF tail THEN k + 1 ELSE k
  IN IF j > i /\ l = n + 1
     THEN << [value |-> SubSeq(s, 1, k - 1),
              float_comp |-> IF point THEN SubSeq(s, j, k - 1) ELSE <<>>,
              suffix |-> IF tail THEN <<s[k]>> ELSE <<>>] >>
     ELSE <<>>

\* re.fullmatch("(-?\d+(\.\d*)?)([rRdD°]?)", s): <<>> when there is no match,
\* else <<groups>>; a group that took no part in the match (None) and the
\* empty group are both <<>>.
valid_form_fullmatch(s) ==
  LET n == Len(s)
      i == IF n >= 1 /\ s[1] = "-" THEN 2 ELSE 1
      j == DigitsEnd(s, i)
      point == j <= n /\ s[j] = "."
      k == IF point THEN DigitsEnd(s, j + 1) ELSE j
      tail == k <= n /\ s[k] \in {"r", "R", "d", "D", "°"}
      l == IF tail THEN k + 1 ELSE k
  IN IF j > i /\ l = n + 1
     THEN << [value |-> SubSeq(s, 1, k - 1),
              float_comp |-> IF point THEN SubSeq(s, j, k - 1) ELSE <<>>,
              suffix |-> IF tail THEN <<s[k]>> ELSE <<>>] >>
     ELSE <<>>

\* The latitude and longitude units the wrong way round.
context_units_swapped(ctx) ==
  IF ctx = "lat" THEN "degrees_east"
  ELSE IF ctx = "lon" THEN "degrees_north"
  ELSE "degrees"

\* The units that the context selects, before the suffix is looked at.
context_units(ctx) ==
  IF ctx = "lat" THEN "degrees_north"
  ELSE IF ctx = "lon" THEN "degrees_east"
  ELSE "degrees"

\* float(value) whether or not the numeral has a point.
numeric_form_float(comps) == py_float(comps.value)

\* "Convert string value to relevant numeric form".
numeric_form(comps) ==
  IF comps.float_comp /= <<>> THEN py_float(comps.value) ELSE py_int(comps.value)

\* Units.conform(x, Units("radians"), Units("degrees")): the float x * 180/pi.
Units_conform(x) ==
  [NormalFloat(x.neg, x.m, x.e) EXCEPT !.conv = "rad2deg"]

\* "if context is not None" in place of "if context".
truthy_is_not_None(ctx) == ctx /= None

\* Truth value of the context argument.
truthy(ctx) == ctx /= None /\ ctx /= ""

\* Radians converted to degrees whatever the context.
apply_suffix_always_converts(suffix, ctx, numeric_value, cf_units) ==
  IF suffix \in {<<"r">>, <<"R">>}
  THEN <<TRUE, Units_conform(numeric_value), cf_units>>
  ELSE IF suffix /= <<>> /\ suffix \notin {<<"d">>, <<"D">>, <<"°">>}
  THEN <<FALSE, numeric_value, cf_units>>
  ELSE <<TRUE, numeric_value, cf_units>>

\* Radians left as radians whatever the context.
apply_suffix_never_converts(suffix, ctx, numeric_value, cf_units) ==
  IF suffix \in {<<"r">>, <<"R">>}
  THEN <<TRUE, numeric_value, "radians">>
  ELSE IF suffix /= <<>> /\ suffix \notin {<<"d">>, <<"D">>, <<"°">>}
  THEN <<FALSE, numeric_value, cf_units>>
  ELSE <<TRUE, numeric_value, cf_units>>

\* The suffix branch: <<cf_compatible, numeric_value, cf_units>>.
apply_suffix(suffix, ctx, numeric_value, cf_units) ==
  IF suffix \in {<<"r">>, <<"R">>}
  THEN IF truthy(ctx)
       THEN <<TRUE, Units_conform(numeric_value), cf_units>>
       ELSE <<TRUE, numeric_value, "radians">>
  ELSE IF suffix /= <<>> /\ suffix \notin {<<"d">>, <<"D">>, <<"°">>}
  THEN <<FALSE, numeric_value, cf_units>>
  ELSE <<TRUE, numeric_value, cf_units>>

\* The call: [raised, value], value being <<>> or <<the Data returned>>.
convert_proj_angular_data_to_cf(text, ctx) ==
  LET form == valid_form_fullmatch(text)
      res == IF form = <<>> THEN <<FALSE>>
             ELSE apply_suffix(form[1].suffix, ctx, numeric_form(form[1]),
                               context_units(ctx))
  IN IF ~res[1]
     THEN [raised |-> [type |-> "ValueError", msg |-> "PROJ data input not valid"],
           value |-> <<>>]
     ELSE [raised |-> NoException,
           value |-> << [array |-> <<res[2]>>, Units |-> res[3]] >>]

(***************************************************************************)
(* convert_cf_angular_data_to_proj                                         *)
(***************************************************************************)
degrees_unit_prefix == <<"degree", "degrees">>

Range(f) == {f[i] : i \in DOMAIN f}

valid_cf_lat_units ==
  {s \o e : s \in Range(degrees_unit_prefix), e \in {"_north", "_N", "N"}}

valid_cf_lon_units ==
  {s \o e : s \in Range(degrees_unit_prefix), e \in {"_east", "_E", "E"}}

\* The list without degrees_unit_prefix: 'degree' and 'degrees' left out.
valid_degrees_units_no_prefix == valid_cf_lat_units \cup valid_cf_lon_units

valid_degrees_units ==
  Range(degrees_unit_prefix) \cup valid_cf_lat_units \cup valid_cf_lon_units

\* The suffix D written for decimal degrees.
proj_text_D(x, units_str) ==
  IF units_str \in valid_degrees_units
  THEN [raised |-> NoException, value |-> <<py_str(x) \o <<"D">> >>]
  ELSE IF units_str = "radians"
  THEN [raised |-> NoException, value |-> <<py_str(x) \o <<"R">> >>]
  ELSE [raised |-> [type |-> "ValueError", msg |-> "Unrecognised angular units"],
        value |-> <<>>]

\* The branch on units_str: the text for the element x, or the error.
proj_text(x, units_str) ==
  IF units_str \in valid_degrees_units
  THEN [raised |-> NoException, value |-> <<py_str(x)>>]
  ELSE IF units_str = "radians"
  THEN [raised |-> NoException, value |-> <<py_str(x) \o <<"R">> >>]
  ELSE [raised |-> [type |-> "ValueError", msg |-> "Unrecognised angular units"],
        value |-> <<>>]

\* The units looked at before the size.
convert_cf_angular_data_to_proj_units_first(d) ==
  IF d.Units = NoUnits
  THEN [raised |-> [type |-> "ValueError", msg |-> "Must provide cf.Data with units"],
        value |-> <<>>]
  ELSE IF Len(d.array) /= 1
  THEN [raised |-> [type |-> "ValueError", msg |-> "Input cf.Data must have size 1"],
        value |-> <<>>]
  ELSE proj_text(d.array[1], d.Units)

\* A Data with no units taken to be in degrees.
convert_cf_angular_data_to_proj_guess_degrees(d) ==
  IF Len(d.array) /= 1
  THEN [raised |-> [type |-> "ValueError", msg |-> "Input cf.Data must have size 1"],
        value |-> <<>>]
  ELSE IF d.Units = NoUnits
  THEN proj_text(d.array[1], "degrees")
  ELSE proj_text(d.array[1], d.Units)

\* The units looked up in the vocabulary before the size and the presence of
\* units are looked at.
convert_cf_angular_data_to_proj_vocabulary_first(d) ==
  IF d.Units \notin valid_degrees_units /\ d.Units /= "radians"
  THEN [raised |-> [type |-> "ValueError", msg |-> "Unrecognised angular units"],
        value |-> <<>>]
  ELSE IF Len(d.array) /= 1
  THEN [raised |-> [type |-> "ValueError", msg |-> "Input cf.Data must have size 1"],
        value |-> <<>>]
  ELSE proj_text(d.array[1], d.Units)

\* The call: [raised, value], value being <<>> or <<the text returned>>.
convert_cf_angular_data_to_proj(d) ==
  IF Len(d.array) /= 1
  THEN [raised |-> [type |-> "ValueError", msg |-> "Input cf.Data must have size 1"],
        value |-> <<>>]
  ELSE IF d.Units = NoUnits
  THEN [raised |-> [type |-> "ValueError", msg |-> "Must provide cf.Data with units"],
        value |-> <<>>]
  ELSE proj_text(d.array[1], d.Units)

(***************************************************************************)
(* _make_proj_string_comp and get_proj_string                              *)
(*                                                                         *)
(* A mapping is the sequence of its entries [comp, value] in iteration     *)
(* order, with distinct keys.  A value is [kind, s, x]: the str s          *)
(* (kind "str"), the number x (kind "num"), or an object whose __str__     *)
(* does not return a str, so that str(value) raises TypeError              *)
(* (kind "object").                                                        *)
(***************************************************************************)
PROJ_PREFIX == <<"+", "p", "r", "o", "j">>

StrValue(s) == [kind |-> "str", s |-> s, x |-> 0]
NumValue(x) == [kind |-> "num", s |-> <<>>, x |-> x]
ObjectValue == [kind |-> "object", s |-> <<>>, x |-> 0]

Float0 == NormalFloat(FALSE, 0, 0)

\* DUMMY_PARAMS = {"a": "b", "c": 0.0}
DUMMY_PARAMS ==
  << [comp |-> <<"a">>, value |-> StrValue(<<"b">>)],
     [comp |-> <<"c">>, value |-> NumValue(Float0)] >>

\* The failure signalled as a ValueError, like those of the two conversions.
non_representable_ValueError ==
  [type |-> "ValueError", msg |-> "Can't create proj-string due to non-representable value"]

\* The TypeError that leaves the function when str(value) raises TypeError.
\* The handler's own message formats the value in an f-string, which raises
\* TypeError again: a TypeError is raised either way.
non_representable ==
  [type |-> "TypeError", msg |-> "Can't create proj-string due to non-representable value"]

\* " +{comp}{value}": the equals sign left out.
proj_string_piece_no_equals(comp, value) == <<" ", "+">> \o comp \o value

\* f" +{comp}={value}" for the str value.
proj_string_piece(comp, value) == <<" ", "+">> \o comp \o <<"=">> \o value

\* The loop over spec.items() from entry i on, proj_string being the string
\* built so far, with an entry that has no str left out of the string.
RECURSIVE proj_string_loop_skipping(_, _, _)
proj_string_loop_skipping(spec, i, proj_string) ==
  IF i > Len(spec) THEN [raised |-> NoException, value |-> <<proj_string>>]
  ELSE LET comp == spec[i].comp
           value == spec[i].value
       IN IF value.kind = "object"
          THEN proj_string_loop_skipping(spec, i + 1, proj_string)
          ELSE proj_string_loop_skipping(spec, i + 1,
                 proj_string \o proj_string_piece(comp,
                   IF value.kind = "str" THEN value.s ELSE py_str(value.x)))

make_proj_string_comp_skipping(spec) == proj_string_loop_skipping(spec, 1, <<>>)

\* The loop over spec.items() from entry i on, proj_string being the string
\* built so far.
RECURSIVE proj_string_loop(_, _, _)
proj_string_loop(spec, i, proj_string) ==
  IF i > Len(spec) THEN [raised |-> NoException, value |-> <<proj_string>>]
  ELSE LET comp == spec[i].comp
           value == spec[i].value
       IN IF value.kind = "object"
          THEN [raised |-> non_representable, value |-> <<>>]
          ELSE proj_string_loop(spec, i + 1,
                 proj_string \o proj_string_piece(comp,
                   IF value.kind = "str" THEN value.s ELSE py_str(value.x)))

\* _make_proj_string_comp(spec): [raised, value], value being <<>> or
\* <<the string returned>>.
make_proj_string_comp(spec) == proj_string_loop(spec, 1, <<>>)

(***************************************************************************)
(* The grid mapping classes.                                               *)
(*                                                                         *)
(* A Python value given to a constructor is the text of its repr, or the   *)
(* str itself: "0.0", "None", "(0.0, 0.0)", "x".  The keyword arguments of *)
(* a call, and the attributes of an instance, are functions from names to  *)
(* values.  A constructor gives [raised, attrs]: the exception that left   *)
(* it, and the attributes set on the instance by then.                     *)
(***************************************************************************)
\* The attribute names with "units" among them.
ALL_GRID_MAPPING_ATTR_NAMES_and_units ==
  {"grid_mapping_name",
   "earth_radius", "inverse_flattening", "longitude_of_prime_meridian",
   "prime_meridian_name", "reference_ellipsoid_name", "semi_major_axis",
   "semi_minor_axis",
   "longitude_of_projection_origin", "latitude_of_projection_origin",
   "scale_factor_at_projection_origin",
   "false_easting", "false_northing",
   "sweep_angle_axis", "fixed_angle_axis",
   "longitude_of_central_meridian", "scale_factor_at_central_meridian",
   "grid_north_pole_latitude", "grid_north_pole_longitude",
   "north_pole_grid_longitude",
   "standard_parallel", "perspective_point_height",
   "azimuth_of_central_line", "straight_vertical_longitude_from_pole",
   "crs_wkt", "geographic_crs_name", "geoid_name", "geopotential_datum_name",
   "horizontal_datum_name", "projected_crs_name", "towgs84", "units"}

ALL_GRID_MAPPING_ATTR_NAMES ==
  {"grid_mapping_name",
   "earth_radius", "inverse_flattening", "longitude_of_prime_meridian",
   "prime_meridian_name", "reference_ellipsoid_name", "semi_major_axis",
   "semi_minor_axis",
   "longitude_of_projection_origin", "latitude_of_projection_origin",
   "scale_factor_at_projection_origin",
   "false_easting", "false_northing",
   "sweep_angle_axis", "fixed_angle_axis",
   "longitude_of_central_meridian", "scale_factor_at_central_meridian",
   "grid_north_pole_latitude", "grid_north_pole_longitude",
   "north_pole_grid_longitude",
   "standard_parallel", "perspective_point_height",
   "azimuth_of_central_line", "straight_vertical_longitude_from_pole",
   "crs_wkt", "geographic_crs_name", "geoid_name", "geopotential_datum_name",
   "horizontal_datum_name", "projected_crs_name", "towgs84"}

NoAttrs == [n \in {} |-> ""]

\* The keyword argument name of the call, or the default of the parameter.
KW(args, name, default) == IF name \in DOMAIN args THEN args[name] ELSE default

\* **kwargs: the keyword arguments that no named parameter took.
Without(args, names) == [n \in DOMAIN args \ names |-> args[n]]

\* The keyword arguments more added to, or put in place of, those of args.
With(args, more) == [n \in DOMAIN args \cup DOMAIN more |->
                       IF n \in DOMAIN more THEN more[n] ELSE args[n]]

\* self.name = value for each name of more.
SetAttrs(attrs, more) == With(attrs, more)

\* "value is not None" in place of bool(value): 0.0 counts as set.
py_bool_is_not_None(value) == value /= "None"

\* bool(value)
py_bool(value) == value \notin {"0.0", "0", "None", "", "()", "False"}

\* str.lower() that leaves capital letters as they are.
lower_identity(value) == value

\* str.lower() on the strings given as axes.
lower(value) ==
  CASE value = "X" -> "x"
    [] value = "Y" -> "y"
    [] value = "Z" -> "z"
    [] OTHER -> value

\* The TypeError of a call that leaves out a parameter without default.
MissingArgument ==
  [type |-> "TypeError", msg |-> "__init__() missing required positional argument"]

\* GridMapping.__init__: an unrecognised keyword raises before anything is
\* set.  The loop names the first unrecognised keyword of the call.
GridMapping_init(args) ==
  LET named == {"reference_ellipsoid_name", "semi_major_axis", "semi_minor_axis",
                "inverse_flattening", "prime_meridian_name",
                "longitude_of_prime_meridian", "earth_radius"}
      kwargs == Without(args, named)
      unrecognised == DOMAIN kwargs \ ALL_GRID_MAPPING_ATTR_NAMES
  IN IF unrecognised /= {}
     THEN [raised |-> [type |-> "ValueError",
                       msg |-> "Unrecognised map parameter provided for the Grid Mapping: "
                               \o (CHOOSE kwarg \in unrecognised : TRUE)],
           attrs |-> NoAttrs]
     ELSE [raised |-> NoException,
           attrs |->
             ("earth_radius" :> KW(args, "earth_radius", "None"))
             @@ ("inverse_flattening" :> KW(args, "inverse_flattening", "298.257223563"))
             @@ ("longitude_of_prime_meridian" :> KW(args, "longitude_of_prime_meridian", "0.0"))
             @@ ("prime_meridian_name" :> KW(args, "prime_meridian_name", "Greenwich"))
             @@ ("reference_ellipsoid_name" :> KW(args, "reference_ellipsoid_name", "WGS 84"))
             @@ ("semi_major_axis" :> KW(args, "semi_major_axis", "6378137.0"))
             @@ ("semi_minor_axis" :> KW(args, "semi_minor_axis", "6356752.314245179"))]

\* AzimuthalGridMapping.__init__
AzimuthalGridMapping_init(args) ==
  LET named == {"longitude_of_projection_origin", "latitude_of_projection_origin",
                "false_easting", "false_northing"}
      super == GridMapping_init(Without(args, named))
  IN IF super.raised /= NoException THEN super
     ELSE [raised |-> NoException,
           attrs |-> SetAttrs(super.attrs,
             ("longitude_of_projection_origin" :> KW(args, "longitude_of_projection_origin", "0.0"))
             @@ ("latitude_of_projection_origin" :> KW(args, "latitude_of_projection_origin", "0.0"))
             @@ ("false_easting" :> KW(args, "false_easting", "0.0"))
             @@ ("false_northing" :> KW(args, "false_northing", "0.0")))]

\* ConicGridMapping.__init__: standard_parallel has no default.
ConicGridMapping_init(args) ==
  LET named == {"standard_parallel", "longitude_of_central_meridian",
                "latitude_of_projection_origin", "false_easting", "false_northing"}
      super == GridMapping_init(Without(args, named))
  IN IF "standard_parallel" \notin DOMAIN args
     THEN [raised |-> MissingArgument, attrs |-> NoAttrs]
     ELSE IF super.raised /= NoException THEN super
     ELSE [raised |-> NoException,
           attrs |-> SetAttrs(super.attrs,
             ("standard_parallel" :> args["standard_parallel"])
             @@ ("longitude_of_central_meridian" :> KW(args, "longitude_of_central_meridian", "0.0"))
             @@ ("latitude_of_projection_origin" :> KW(args, "latitude_of_projection_origin", "0.0"))
             @@ ("false_easting" :> KW(args, "false_easting", "0.0"))
             @@ ("false_northing" :> KW(args, "false_northing", "0.0")))]

\* CylindricalGridMapping.__init__
CylindricalGridMapping_init(args) ==
  LET named == {"false_easting", "false_northing"}
      super == GridMapping_init(Without(args, named))
  IN IF super.raised /= NoException THEN super
     ELSE [raised |-> NoException,
           attrs |-> SetAttrs(super.attrs,
             ("false_easting" :> KW(args, "false_easting", "0.0"))
             @@ ("false_northing" :> KW(args, "false_northing", "0.0")))]

\* PerspectiveGridMapping.__init__: perspective_point_height has no default.
PerspectiveGridMapping_init(args) ==
  LET named == {"perspective_point_height"}
      super == AzimuthalGridMapping_init(Without(args, named))
  IN IF "perspective_point_height" \notin DOMAIN args
     THEN [raised |-> MissingArgument, attrs |-> NoAttrs]
     ELSE IF super.raised /= NoException THEN super
     ELSE [raised |-> NoException,
           attrs |-> SetAttrs(super.attrs,
             "perspective_point_height" :> args["perspective_point_height"])]

\* Geostationary.__init__: the four origin and false-Xing arguments of the
\* caller are replaced by 0.0 in the call of super().__init__.
Geostationary_init(args) ==
  LET named == {"perspective_point_height", "longitude_of_projection_origin",
                "latitude_of_projection_origin", "false_easting", "false_northing",
                "sweep_angle_axis", "fixed_angle_axis"}
      sweep_angle_axis == KW(args, "sweep_angle_axis", "y")
      fixed_angle_axis == KW(args, "fixed_angle_axis", "x")
      super == PerspectiveGridMapping_init(
                 With(Without(args, named \ {"perspective_point_height"}),
                      ("longitude_of_projection_origin" :> "0.0")
                      @@ ("latitude_of_projection_origin" :> "0.0")
                      @@ ("false_easting" :> "0.0")
                      @@ ("false_northing" :> "0.0")))
  IN IF super.raised /= NoException THEN super
     ELSE IF <<lower(sweep_angle_axis), lower(fixed_angle_axis)>>
               \notin {<<"x", "y">>, <<"y", "x">>}
     THEN [raised |-> [type |-> "ValueError",
                       msg |-> "The sweep_angle_axis must be the opposite value, from 'x' and 'y', to the fixed_angle_axis."],
           attrs |-> super.attrs]
     ELSE [raised |-> NoException,
           attrs |-> SetAttrs(super.attrs,
             ("sweep_angle_axis" :> lower(sweep_angle_axis))
             @@ ("fixed_angle_axis" :> lower(fixed_angle_axis)))]

\* LambertCylindricalEqualArea.__init__
LambertCylindricalEqualArea_init(args) ==
  LET named == {"false_easting", "false_northing", "standard_parallel",
                "scale_factor_at_projection_origin", "longitude_of_central_meridian"}
      super == CylindricalGridMapping_init(
                 With(Without(args, named),
                      ("false_easting" :> "0.0") @@ ("false_northing" :> "0.0")))
  IN IF super.raised /= NoException THEN super
     ELSE [raised |-> NoException,
           attrs |-> SetAttrs(super.attrs,
             ("standard_parallel" :> KW(args, "standard_parallel", "(0.0, None)"))
             @@ ("longitude_of_central_meridian" :> KW(args, "longitude_of_central_meridian", "0.0"))
             @@ ("scale_factor_at_projection_origin" :> KW(args, "scale_factor_at_projection_origin", "1.0")))]

\* Mercator.__init__
Mercator_init(args) ==
  LET named == {"false_easting", "false_northing", "standard_parallel",
                "longitude_of_projection_origin", "scale_factor_at_projection_origin"}
      super == CylindricalGridMapping_init(
                 With(Without(args, named),
                      ("false_easting" :> "0.0") @@ ("false_northing" :> "0.0")))
  IN IF super.raised /= NoException THEN super
     ELSE [raised |-> NoException,
           attrs |-> SetAttrs(super.attrs,
             ("standard_parallel" :> KW(args, "standard_parallel", "(0.0, None)"))
             @@ ("longitude_of_projection_origin" :> KW(args, "longitude_of_projection_origin", "0.0"))
             @@ ("scale_factor_at_projection_origin" :> KW(args, "scale_factor_at_projection_origin", "1.0")))]

\* ObliqueMercator.__init__
ObliqueMercator_init(args) ==
  LET named == {"azimuth_of_central_line", "latitude_of_projection_origin",
                "longitude_of_projection_origin", "scale_factor_at_projection_origin",
                "false_easting", "false_northing"}
      super == CylindricalGridMapping_init(
                 With(Without(args, named),
                      ("false_easting" :> "0.0") @@ ("false_northing" :> "0.0")))
  IN IF super.raised /= NoException THEN super
     ELSE [raised |-> NoException,
           attrs |-> SetAttrs(super.attrs,
             ("azimuth_of_central_line" :> KW(args, "azimuth_of_central_line", "0.0"))
             @@ ("latitude_of_projection_origin" :> KW(args, "latitude_of_projection_origin", "0.0"))
             @@ ("longitude_of_projection_origin" :> KW(args, "longitude_of_projection_origin", "0.0"))
             @@ ("scale_factor_at_projection_origin" :> KW(args, "scale_factor_at_projection_origin", "1.0")))]

\* PolarStereographic.__init__
PolarStereographic_init(args) ==
  LET named == {"latitude_of_projection_origin", "longitude_of_projection_origin",
                "false_easting", "false_northing", "standard_parallel",
                "straight_vertical_longitude_from_pole",
                "scale_factor_at_projection_origin"}
      longitude_of_projection_origin == KW(args, "longitude_of_projection_origin", "0.0")
      straight_vertical_longitude_from_pole ==
        KW(args, "straight_vertical_longitude_from_pole", "0.0")
      super == AzimuthalGridMapping_init(
                 With(Without(args, named),
                      ("latitude_of_projection_origin" :> "0.0")
                      @@ ("longitude_of_projection_origin" :> "0.0")
                      @@ ("false_easting" :> "0.0")
                      @@ ("false_northing" :> "0.0")))
  IN IF super.raised /= NoException THEN super
     ELSE IF py_bool(longitude_of_projection_origin)
             /\ py_bool(straight_vertical_longitude_from_pole)
     THEN [raised |-> [type |-> "ValueError",
                       msg |-> "Only one of 'longitude_of_projection_origin' and 'straight_vertical_longitude_from_pole' can be set."],
           attrs |-> super.attrs]
     ELSE [raised |-> NoException,
           attrs |-> SetAttrs(super.attrs,
             ("straight_vertical_longitude_from_pole" :> straight_vertical_longitude_from_pole)
             @@ ("standard_parallel" :> KW(args, "standard_parallel", "(0.0, 0.0)"))
             @@ ("scale_factor_at_projection_origin" :> KW(args, "scale_factor_at_projection_origin", "1.0")))]

\* RotatedLatitudeLongitude.__init__: the two pole coordinates have no
\* default.
RotatedLatitudeLongitude_init(args) ==
  LET named == {"grid_north_pole_latitude", "grid_north_pole_longitude",
                "north_pole_grid_longitude"}
      super == GridMapping_init(Without(args, named))
  IN IF {"grid_north_pole_latitude", "grid_north_pole_longitude"} \ DOMAIN args /= {}
     THEN [raised |-> MissingArgument, attrs |-> NoAttrs]
     ELSE IF super.raised /= NoException THEN super
     ELSE [raised |-> NoException,
           attrs |-> SetAttrs(super.attrs,
             ("grid_north_pole_latitude" :> args["grid_north_pole_latitude"])
             @@ ("grid_north_pole_longitude" :> args["grid_north_pole_longitude"])
             @@ ("north_pole_grid_longitude" :> KW(args, "north_pole_grid_longitude", "0.0")))]

\* Sinusoidal.__init__
Sinusoidal_init(args) ==
  LET named == {"longitude_of_projection_origin", "false_easting", "false_northing"}
      super == GridMapping_init(Without(args, named))
  IN IF super.raised /= NoException THEN super
     ELSE [raised |-> NoException,
           attrs |-> SetAttrs(super.attrs,
             ("longitude_of_projection_origin" :> KW(args, "longitude_of_projection_origin", "0.0"))
             @@ ("false_easting" :> KW(args, "false_easting", "0.0"))
             @@ ("false_northing" :> KW(args, "false_northing", "0.0")))]

\* Stereographic.__init__
Stereographic_init(args) ==
  LET named == {"false_easting", "false_northing", "longitude_of_projection_origin",
                "latitude_of_projection_origin", "scale_factor_at_projection_origin"}
      super == AzimuthalGridMapping_init(
                 With(Without(args, named),
                      ("false_easting" :> "0.0")
                      @@ ("false_northing" :> "0.0")
                      @@ ("longitude_of_projection_origin" :> "0.0")
                      @@ ("latitude_of_projection_origin" :> "0.0")))
  IN IF super.raised /= NoException THEN super
     ELSE [raised |-> NoException,
           attrs |-> SetAttrs(super.attrs,
             "scale_factor_at_projection_origin"
               :> KW(args, "scale_factor_at_projection_origin", "1.0"))]

\* TransverseMercator.__init__
TransverseMercator_init(args) ==
  LET named == {"scale_factor_at_central_meridian", "longitude_of_central_meridian",
                "latitude_of_projection_origin", "false_easting", "false_northing"}
      super == CylindricalGridMapping_init(
                 With(Without(args, named),
                      ("false_easting" :> "0.0") @@ ("false_northing" :> "0.0")))
  IN IF super.raised /= NoException THEN super
     ELSE [raised |-> NoException,
           attrs |-> SetAttrs(super.attrs,
             ("scale_factor_at_central_meridian" :> KW(args, "scale_factor_at_central_meridian", "1.0"))
             @@ ("longitude_of_central_meridian" :> KW(args, "longitude_of_central_meridian", "0.0"))
             @@ ("latitude_of_projection_origin" :> KW(args, "latitude_of_projection_origin", "0.0")))]

GridMappingClasses ==
  {"AlbersEqualArea", "AzimuthalEquidistant", "Geostationary",
   "LambertAzimuthalEqualArea", "LambertConformalConic",
   "LambertCylindricalEqualArea", "Mercator", "ObliqueMercator",
   "Orthographic", "PolarStereographic", "RotatedLatitudeLongitude",
   "LatitudeLongitude", "Sinusoidal", "Stereographic", "TransverseMercator",
   "VerticalPerspective"}

\* cls(**args): the __init__ that the class defines or inherits.
GridMapping_new(cls, args) ==
  CASE cls = "AlbersEqualArea" -> ConicGridMapping_init(args)
    [] cls = "AzimuthalEquidistant" -> AzimuthalGridMapping_init(args)
    [] cls = "Geostationary" -> Geostationary_init(args)
    [] cls = "LambertAzimuthalEqualArea" -> AzimuthalGridMapping_init(args)
    [] cls = "LambertConformalConic" -> ConicGridMapping_init(args)
    [] cls = "LambertCylindricalEqualArea" -> LambertCylindricalEqualArea_init(args)
    [] cls = "Mercator" -> Mercator_init(args)
    [] cls = "ObliqueMercator" -> ObliqueMercator_init(args)
    [] cls = "Orthographic" -> AzimuthalGridMapping_init(args)
    [] cls = "PolarStereographic" -> PolarStereographic_init(args)
    [] cls = "RotatedLatitudeLongitude" -> RotatedLatitudeLongitude_init(args)
    [] cls = "LatitudeLongitude" -> GridMapping_init(args)
    [] cls = "Sinusoidal" -> Sinusoidal_init(args)
    [] cls = "Stereographic" -> Stereographic_init(args)
    [] cls = "TransverseMercator" -> TransverseMercator_init(args)
    [] cls = "VerticalPerspective" -> PerspectiveGridMapping_init(args)

\* The class attribute proj_id.
proj_id(cls) ==
  CASE cls = "AlbersEqualArea" -> <<"a", "e", "a">>
    [] cls = "AzimuthalEquidistant" -> <<"a", "e", "q", "d">>
    [] cls = "Geostationary" -> <<"g", "e", "o", "s">>
    [] cls = "LambertAzimuthalEqualArea" -> <<"l", "a", "e", "a">>
    [] cls = "LambertConformalConic" -> <<"l", "c", "c">>
    [] cls = "LambertCylindricalEqualArea" -> <<"c", "e", "a">>
    [] cls = "Mercator" -> <<"m", "e", "r", "c">>
    [] cls = "ObliqueMercator" -> <<"o", "m", "e", "r", "c">>
    [] cls = "Orthographic" -> <<"o", "r", "t", "h", "o">>
    [] cls = "PolarStereographic" -> <<"u", "p", "s">>
    [] cls = "RotatedLatitudeLongitude" -> <<"l", "a", "t", "l", "o", "n", "g">>
    [] cls = "LatitudeLongitude" -> <<"l", "a", "t", "l", "o", "n", "g">>
    [] cls = "Sinusoidal" -> <<"s", "i", "n", "u">>
    [] cls = "Stereographic" -> <<"s", "t", "e", "r", "e">>
    [] cls = "TransverseMercator" -> <<"t", "m", "e", "r", "c">>
    [] cls = "VerticalPerspective" -> <<"n", "s", "p", "e", "r">>

\* The TypeError of hash(x): __hash__ is declared with a second parameter,
\* other, and hash() passes the instance alone.
HashMissingArgument ==
  [type |-> "TypeError", msg |-> "__hash__() missing 1 required positional argument: 'other'"]

\* get_proj_string of an instance of cls: every class has the same body.
get_proj_string(cls) ==
  LET parameters == make_proj_string_comp(DUMMY_PARAMS)
  IN IF parameters.raised /= NoException THEN parameters
     ELSE [raised |-> NoException,
           value |-> <<PROJ_PREFIX \o <<"=">> \o proj_id(cls) \o parameters.value[1]>>]

\* An __eq__ that compares the classes of the two instances.
GridMapping_eq_same_class(self, other) ==
  [raised |-> NoException, value |-> <<self.cls = other.cls>>]

\* GridMapping.__eq__, which no class overrides: self == other.
GridMapping_eq(self, other) ==
  LET mine == get_proj_string(self.cls)
      theirs == get_proj_string(other.cls)
  IN IF mine.raised /= NoException THEN [raised |-> mine.raised, value |-> <<>>]
     ELSE IF theirs.raised /= NoException THEN [raised |-> theirs.raised, value |-> <<>>]
     ELSE [raised |-> NoException, value |-> <<mine.value[1] = theirs.value[1]>>]

\* hash(self): the call type(self).__hash__(self) cannot bind other, so the
\* body of GridMapping.__hash__ is never run.
GridMapping_hash(self) == [raised |-> HashMissingArgument, value |-> <<>>]

(***************************************************************************)
(* The inputs of the calls.                                                *)
(***************************************************************************)
Alphabet == {"0", "1", "-", ".", "r", "R", "d", "D", "°", "x", " ", "+", "e"}

StringsOver(A, n) == UNION {[1..k -> A] : k \in 0..n}

\* Every text of at most MaxLen characters, and the longer numerals: an
\* optional sign, at most MaxNumLen digits and points, an optional R.
Texts ==
  StringsOver(Alphabet, MaxLen)
  \cup {sign \o body \o suffix :
          sign \in {<<>>, <<"-">>},
          body \in StringsOver({"0", "1", "."}, MaxNumLen),
          suffix \in {<<>>, <<"R">>}}

Contexts == {None, "lat", "lon", "", "grid"}

Numbers ==
  {[kind |-> "int", neg |-> neg /\ m /= 0, m |-> m, e |-> 0, conv |-> "none"] :
     neg \in BOOLEAN, m \in 0..MaxMant}
  \cup {NormalFloat(neg, m, e) :
          neg \in BOOLEAN, m \in 0..MaxMant, e \in (-MaxExp)..MaxExp}

UnitStrings ==
  {"degree", "degrees",
   "degree_north", "degree_N", "degreeN",
   "degrees_north", "degrees_N", "degreesN",
   "degree_east", "degree_E", "degreeE",
   "degrees_east", "degrees_E", "degreesE",
   "radians", "radian", "kelvin", "degrees_south", "m", NoUnits}

\* Data whose elements are all the same number.
DataValues ==
  {[array |-> [i \in 1..n |-> x], Units |-> u] :
     n \in 0..MaxSize, x \in Numbers, u \in UnitStrings}

NoData == [array |-> <<>>, Units |-> NoUnits]

\* The mappings of at most MaxEntries entries, with distinct keys.
MappingKeys == {<<"a">>, <<"c">>, <<"l", "a", "t", "_", "0">>}

MappingValues ==
  {StrValue(<<"b">>), NumValue(Float0), NumValue(NormalFloat(FALSE, 25, 1)),
   NumValue([kind |-> "int", neg |-> FALSE, m |-> 1, e |-> 0, conv |-> "none"]),
   ObjectValue}

Mappings ==
  {sp \in UNION {[1..k -> [comp : MappingKeys, value : MappingValues]] :
                   k \in 0..MaxEntries} :
     \A i, j \in 1..Len(sp) : sp[i].comp = sp[j].comp => i = j}

\* The parameters that the docstring of each class documents.
Documented(cls) ==
  CASE cls \in {"AzimuthalEquidistant", "LambertAzimuthalEqualArea", "Orthographic"} ->
         {"longitude_of_projection_origin", "latitude_of_projection_origin",
          "false_easting", "false_northing"}
    [] cls = "AlbersEqualArea" ->
         {"standard_parallel", "longitude_of_central_meridian",
          "latitude_of_projection_origin", "false_easting", "false_northing"}
    [] cls = "LambertConformalConic" ->
         {"standard_parallel", "longitude_of_projection_origin",
          "latitude_of_projection_origin", "false_easting", "false_northing"}
    [] cls = "Geostationary" ->
         {"perspective_point_height", "longitude_of_projection_origin",
          "latitude_of_projection_origin", "false_easting", "false_northing",
          "sweep_angle_axis", "fixed_angle_axis"}
    [] cls = "VerticalPerspective" ->
         {"perspective_point_height", "longitude_of_projection_origin",
          "latitude_of_projection_origin", "false_easting", "false_northing"}
    [] cls = "LambertCylindricalEqualArea" ->
         {"false_easting", "false_northing", "standard_parallel",
          "longitude_of_central_meridian", "scale_factor_at_projection_origin"}
    [] cls = "Mercator" ->
         {"false_easting", "false_northing", "standard_parallel",
          "longitude_of_projection_origin", "scale_factor_at_projection_origin"}
    [] cls = "ObliqueMercator" ->
         {"false_easting", "false_northing", "azimuth_of_central_line",
          "longitude_of_projection_origin", "latitude_of_projection_origin",
          "scale_factor_at_projection_origin"}
    [] cls = "PolarStereographic" ->
         {"straight_vertical_longitude_from_pole", "longitude_of_projection_origin",
          "latitude_of_projection_origin", "scale_factor_at_projection_origin",
          "false_easting", "false_northing", "standard_parallel"}
    [] cls = "RotatedLatitudeLongitude" ->
         {"grid_north_pole_latitude", "grid_north_pole_longitude",
          "north_pole_grid_longitude"}
    [] cls = "LatitudeLongitude" -> {}
    [] cls = "Sinusoidal" ->
         {"longitude_of_projection_origin", "false_easting", "false_northing"}
    [] cls = "Stereographic" ->
         {"longitude_of_projection_origin", "latitude_of_projection_origin",
          "false_easting", "false_northing", "scale_factor_at_projection_origin"}
    [] cls = "TransverseMercator" ->
         {"false_easting", "false_northing", "scale_factor_at_central_meridian",
          "longitude_of_central_meridian", "latitude_of_projection_origin"}

\* The parameters without a default in the signature of the __init__ that a
\* call of the class reaches.
Required(cls) ==
  CASE cls \in {"AlbersEqualArea", "LambertConformalConic"} -> {"standard_parallel"}
    [] cls \in {"Geostationary", "VerticalPerspective"} -> {"perspective_point_height"}
    [] cls = "RotatedLatitudeLongitude" ->
         {"grid_north_pole_latitude", "grid_north_pole_longitude"}
    [] OTHER -> {}

\* The keywords of the calls of a class: its documented parameters, a
\* parameter of the base class, an attribute name that no class takes and a
\* name that is not an attribute name.
ArgNames(cls) == Documented(cls) \cup {"earth_radius", "crs_wkt", "units"}

ArgValues(name) ==
  CASE name \in {"sweep_angle_axis", "fixed_angle_axis"} -> {"x", "y", "X", "Y", "z"}
    [] name = "standard_parallel" -> {"(0.0, 0.0)", "(30.0, 60.0)"}
    [] OTHER -> {"0.0", "2.5"}

\* The keyword arguments with the names S.
RECURSIVE ArgsOver(_)
ArgsOver(S) ==
  IF S = {} THEN {NoAttrs}
  ELSE LET name == CHOOSE n \in S : TRUE
       IN {With(args, name :> v) : args \in ArgsOver(S \ {name}), v \in ArgValues(name)}

Calls(cls) ==
  UNION {ArgsOver(S) : S \in {T \in SUBSET ArgNames(cls) : Cardinality(T) <= MaxArgs}}

\* The calls after which a second instance is constructed, and the calls
\* that construct it: the parameters without default and false_easting.
PairCalls(cls) ==
  UNION {ArgsOver(S) : S \in SUBSET (Required(cls) \cup {"false_easting"})}

NoCall == [cls |-> "", args |-> NoAttrs, attrs |-> NoAttrs]

\* No comparison and no hash asked for yet.
NoComparison == [self |-> 0, other |-> 0, value |-> <<>>]
NoHash == [self |-> 0, value |-> <<>>]

(***************************************************************************)
(* The converters called from threads.  A call runs line by line, lines    *)
(* of different threads in any order.  Each call has a frame of its own    *)
(* for its local variables; the converters have no global statement, so    *)
(* every name they assign is a local.                                      *)
(***************************************************************************)
Threads == {"t1", "t2"}

\* One frame for the calls of all threads.
slot_shared(t) == "t1"

\* The frame of the call that thread t is making.
slot(t) == t

\* The Data objects that the callers hold; a thread passes one by reference.
HeapData ==
  << [array |-> <<NormalFloat(FALSE, 15, 1)>>, Units |-> "degrees_north"],
     [array |-> <<[kind |-> "int", neg |-> TRUE, m |-> 1, e |-> 0, conv |-> "none"]>>,
      Units |-> "radians"],
     [array |-> <<Float0, Float0>>, Units |-> "degrees"],
     [array |-> <<Float0>>, Units |-> NoUnits],
     [array |-> <<Float0>>, Units |-> "m"] >>

ThreadTexts ==
  {<<"1">>, <<"1", ".", "5", "R">>, <<"-", "1", "r">>, <<"1", "d">>, <<"x">>}

ThreadContexts == {None, "lat", "lon"}

\* The names bound at module level when the module has been imported.
ModuleLevel == [PROJ_PREFIX |-> PROJ_PREFIX, DUMMY_PARAMS |-> DUMMY_PARAMS]

NoResult == [raised |-> NoException, value |-> <<>>]

\* A thread that is making no call.
NoThreadCall ==
  [fn |-> "", pc |-> "idle", proj_data |-> <<>>, context |-> None, data |-> 0,
   overlapped |-> FALSE, result |-> NoResult]

\* A frame in which no local is bound yet.
NoLocals ==
  [cf_compatible |-> FALSE, cf_units |-> "", form |-> <<>>,
   comps |-> [value |-> <<>>, float_comp |-> <<>>, suffix |-> <<>>],
   numeric_value |-> Float0, units_str |-> "", valid_degrees_units |-> {},
   proj_data |-> <<>>]

\* data.size, data.Units and data.data.array of the Data object at address d.
Data_read(h, d) == h[d]

(***************************************************************************)
(* The calls.                                                              *)
(***************************************************************************)
Init ==
  /\ op = "idle"
  /\ proj_data = <<>>
  /\ context = None
  /\ data = NoData
  /\ cf_out = <<>>
  /\ proj_out = <<>>
  /\ raised = NoException
  /\ mapping = <<>>
  /\ new = NoCall
  /\ gms = <<>>
  /\ proj_strings = <<>>
  /\ eq_out = NoComparison
  /\ hash_out = NoHash
  /\ calls = [t \in Threads |-> NoThreadCall]
  /\ locals = [t \in Threads |-> NoLocals]
  /\ heap = HeapData
  /\ module_level = ModuleLevel

\* convert_proj_angular_data_to_cf(text, ctx)
Decode ==
  /\ op = "idle"
  /\ \E text \in Texts, ctx \in Contexts :
       LET r == convert_proj_angular_data_to_cf(text, ctx)
       IN /\ op' = "decode"
          /\ proj_data' = text
          /\ context' = ctx
          /\ cf_out' = r.value
          /\ raised' = r.raised
  /\ UNCHANGED <<data, proj_out, mapping, new, gms, proj_strings,
               eq_out, hash_out, tvars>>

\* convert_cf_angular_data_to_proj(d)
Encode ==
  /\ op = "idle"
  /\ \E d \in DataValues :
       LET r == convert_cf_angular_data_to_proj(d)
       IN /\ op' = "encode"
          /\ data' = d
          /\ proj_out' = r.value
          /\ raised' = r.raised
  /\ UNCHANGED <<proj_data, context, cf_out, mapping, new, gms, proj_strings,
               eq_out, hash_out, tvars>>

\* convert_cf_angular_data_to_proj(convert_proj_angular_data_to_cf(text)):
\* the Data decoded with the default context is encoded.
EncodeDecoded ==
  /\ op = "decode"
  /\ raised = NoException
  /\ context = None
  /\ LET r == convert_cf_angular_data_to_proj(cf_out[1])
     IN /\ op' = "decode_encode"
        /\ data' = cf_out[1]
        /\ proj_out' = r.value
        /\ raised' = r.raised
  /\ UNCHANGED <<proj_data, context, cf_out, mapping, new, gms, proj_strings,
               eq_out, hash_out, tvars>>

\* convert_proj_angular_data_to_cf(convert_cf_angular_data_to_proj(d)):
\* the text encoded is decoded with the default context.
DecodeEncoded ==
  /\ op = "encode"
  /\ raised = NoException
  /\ LET r == convert_proj_angular_data_to_cf(proj_out[1], None)
     IN /\ op' = "encode_decode"
        /\ proj_data' = proj_out[1]
        /\ context' = None
        /\ cf_out' = r.value
        /\ raised' = r.raised
  /\ UNCHANGED <<data, proj_out, mapping, new, gms, proj_strings,
               eq_out, hash_out, tvars>>

\* _make_proj_string_comp(spec)
MakeProjStringComp ==
  /\ op = "idle"
  /\ \E sp \in Mappings :
       LET r == make_proj_string_comp(sp)
       IN /\ op' = "make_proj_string_comp"
          /\ mapping' = sp
          /\ proj_out' = r.value
          /\ raised' = r.raised
  /\ UNCHANGED <<proj_data, context, data, cf_out, new, gms, proj_strings,
               eq_out, hash_out, tvars>>

\* cls(**args): new is the call with the attributes set by its end, and an
\* instance that the call returns joins gms, its proj-string not yet asked
\* for.  A second instance is constructed only after a call of PairCalls.
Construct ==
  /\ \/ op = "idle"
     \/ /\ op \in {"construct", "get_proj_string"}
        /\ Len(gms) = 1
        /\ gms[1].args \in PairCalls(gms[1].cls)
  /\ \E cls \in GridMappingClasses :
       \E args \in (IF gms = <<>> THEN Calls(cls) ELSE PairCalls(cls)) :
         LET r == GridMapping_new(cls, args)
             gm == [cls |-> cls, args |-> args, attrs |-> r.attrs]
         IN /\ op' = "construct"
            /\ new' = gm
            /\ raised' = r.raised
            /\ gms' = IF r.raised = NoException THEN Append(gms, gm) ELSE gms
            /\ proj_strings' = IF r.raised = NoException
                               THEN Append(proj_strings, <<>>)
                               ELSE proj_strings
  /\ UNCHANGED <<proj_data, context, data, cf_out, proj_out, mapping,
               eq_out, hash_out, tvars>>

\* gms[i].get_proj_string()
GetProjString ==
  /\ op \in {"construct", "get_proj_string"}
  /\ \E i \in 1..Len(gms) :
       /\ proj_strings[i] = <<>>
       /\ LET r == get_proj_string(gms[i].cls)
          IN /\ op' = "get_proj_string"
             /\ raised' = r.raised
             /\ proj_strings' = [proj_strings EXCEPT ![i] = r.value]
  /\ UNCHANGED <<proj_data, context, data, cf_out, proj_out, mapping, new, gms,
               eq_out, hash_out, tvars>>

\* gms[i] == gms[j]
Eq ==
  /\ op = "construct"
  /\ \E i, j \in 1..Len(gms) :
       LET r == GridMapping_eq(gms[i], gms[j])
       IN /\ op' = "eq"
          /\ raised' = r.raised
          /\ eq_out' = [self |-> i, other |-> j, value |-> r.value]
  /\ UNCHANGED <<proj_data, context, data, cf_out, proj_out, mapping, new, gms,
               proj_strings, hash_out, tvars>>

\* hash(gms[i])
Hash ==
  /\ op = "construct"
  /\ \E i \in 1..Len(gms) :
       LET r == GridMapping_hash(gms[i])
       IN /\ op' = "hash"
          /\ raised' = r.raised
          /\ hash_out' = [self |-> i, value |-> r.value]
  /\ UNCHANGED <<proj_data, context, data, cf_out, proj_out, mapping, new, gms,
               proj_strings, eq_out, tvars>>

Next ==
  \/ Decode \/ Encode \/ EncodeDecoded \/ DecodeEncoded
  \/ MakeProjStringComp \/ Construct \/ GetProjString
  \/ Eq \/ Hash

Spec == Init /\ [][Next]_vars

(***************************************************************************)
(* The calls made by threads.                                              *)
(***************************************************************************)
\* Thread t has run a line: the calls in progress of the other threads have
\* had a line of another call run in their midst.
Stepped(t, call) ==
  [u \in Threads |->
     IF u = t THEN call
     ELSE IF calls[u].pc \notin {"idle", "done"}
          THEN [calls[u] EXCEPT !.overlapped = TRUE]
          ELSE calls[u]]

Running(t, fn, pc) == calls[t].fn = fn /\ calls[t].pc = pc

\* A thread that is making no call calls one of the converters.
ThreadCall ==
  \E t \in Threads :
    /\ calls[t].pc \in {"idle", "done"}
    /\ \/ \E text \in ThreadTexts, ctx \in ThreadContexts :
            calls' = Stepped(t, [NoThreadCall EXCEPT !.fn = "decode", !.pc = "145",
                                   !.proj_data = text, !.context = ctx,
                                   !.overlapped =
                                     \E u \in Threads \ {t} :
                                       calls[u].pc \notin {"idle", "done"}])
       \/ \E d \in DOMAIN heap :
            calls' = Stepped(t, [NoThreadCall EXCEPT !.fn = "encode", !.pc = "229",
                                   !.data = d,
                                   !.overlapped =
                                     \E u \in Threads \ {t} :
                                       calls[u].pc \notin {"idle", "done"}])
    /\ locals' = [locals EXCEPT ![slot(t)] = NoLocals]
    /\ UNCHANGED <<heap, module_level, svars>>

\* Lines 145-162: cf_compatible and cf_units.
DecodeContext ==
  \E t \in Threads :
    /\ Running(t, "decode", "145")
    /\ locals' = [locals EXCEPT ![slot(t)].cf_compatible = TRUE,
                                ![slot(t)].cf_units = context_units(calls[t].context)]
    /\ calls' = Stepped(t, [calls[t] EXCEPT !.pc = "169"])
    /\ UNCHANGED <<heap, module_level, svars>>

\* Lines 169-170: form.
DecodeMatch ==
  \E t \in Threads :
    /\ Running(t, "decode", "169")
    /\ locals' = [locals EXCEPT ![slot(t)].form = valid_form_fullmatch(calls[t].proj_data)]
    /\ calls' = Stepped(t, [calls[t] EXCEPT !.pc = "171"])
    /\ UNCHANGED <<heap, module_level, svars>>

\* Lines 171-183 and 195-196: comps and numeric_value when there is a match,
\* cf_compatible = False when there is none.
DecodeNumeric ==
  \E t \in Threads :
    /\ Running(t, "decode", "171")
    /\ LET form == locals[slot(t)].form
       IN IF form /= <<>>
          THEN /\ locals' = [locals EXCEPT ![slot(t)].comps = form[1],
                                           ![slot(t)].numeric_value = numeric_form(form[1])]
               /\ calls' = Stepped(t, [calls[t] EXCEPT !.pc = "185"])
          ELSE /\ locals' = [locals EXCEPT ![slot(t)].cf_compatible = FALSE]
               /\ calls' = Stepped(t, [calls[t] EXCEPT !.pc = "198"])
    /\ UNCHANGED <<heap, module_level, svars>>

\* Lines 185-194: the branch on the suffix.
DecodeSuffix ==
  \E t \in Threads :
    /\ Running(t, "decode", "185")
    /\ LET frame == locals[slot(t)]
           res == apply_suffix(frame.comps.suffix, calls[t].context,
                               frame.numeric_value, frame.cf_units)
       IN locals' = [locals EXCEPT ![slot(t)].cf_compatible = frame.cf_compatible /\ res[1],
                                   ![slot(t)].numeric_value = res[2],
                                   ![slot(t)].cf_units = res[3]]
    /\ calls' = Stepped(t, [calls[t] EXCEPT !.pc = "198"])
    /\ UNCHANGED <<heap, module_level, svars>>

\* Lines 198-204: raise ValueError, or return a new Data.
DecodeReturn ==
  \E t \in Threads :
    /\ Running(t, "decode", "198")
    /\ LET frame == locals[slot(t)]
           result ==
             IF ~frame.cf_compatible
             THEN [raised |-> [type |-> "ValueError", msg |-> "PROJ data input not valid"],
                   value |-> <<>>]
             ELSE [raised |-> NoException,
                   value |-> << [array |-> <<frame.numeric_value>>,
                                 Units |-> frame.cf_units] >>]
       IN calls' = Stepped(t, [calls[t] EXCEPT !.pc = "done", !.result = result])
    /\ UNCHANGED <<locals, heap, module_level, svars>>

\* Lines 229-232: data.size.
EncodeSize ==
  \E t \in Threads :
    /\ Running(t, "encode", "229")
    /\ IF Len(Data_read(heap, calls[t].data).array) /= 1
       THEN calls' = Stepped(t, [calls[t] EXCEPT !.pc = "done", !.result =
              [raised |-> [type |-> "ValueError", msg |-> "Input cf.Data must have size 1"],
               value |-> <<>>]])
       ELSE calls' = Stepped(t, [calls[t] EXCEPT !.pc = "234"])
    /\ UNCHANGED <<locals, heap, module_level, svars>>

\* Lines 234-239: units and units_str.
EncodeUnits ==
  \E t \in Threads :
    /\ Running(t, "encode", "234")
    /\ LET units == Data_read(heap, calls[t].data).Units
       IN IF units = NoUnits
          THEN /\ calls' = Stepped(t, [calls[t] EXCEPT !.pc = "done", !.result =
                    [raised |-> [type |-> "ValueError",
                                 msg |-> "Must provide cf.Data with units"],
                     value |-> <<>>]])
               /\ UNCHANGED locals
          ELSE /\ calls' = Stepped(t, [calls[t] EXCEPT !.pc = "241"])
               /\ locals' = [locals EXCEPT ![slot(t)].units_str = units]
    /\ UNCHANGED <<heap, module_level, svars>>

\* Lines 241-262: the lists of valid units, locals of the call.
EncodeLists ==
  \E t \in Threads :
    /\ Running(t, "encode", "241")
    /\ locals' = [locals EXCEPT ![slot(t)].valid_degrees_units = valid_degrees_units]
    /\ calls' = Stepped(t, [calls[t] EXCEPT !.pc = "264"])
    /\ UNCHANGED <<heap, module_level, svars>>

\* Lines 264-275: proj_data, or raise ValueError.
EncodeBranch ==
  \E t \in Threads :
    /\ Running(t, "encode", "264")
    /\ LET frame == locals[slot(t)]
           item == Data_read(heap, calls[t].data).array[1]
       IN IF frame.units_str \in frame.valid_degrees_units
          THEN /\ locals' = [locals EXCEPT ![slot(t)].proj_data = py_str(item)]
               /\ calls' = Stepped(t, [calls[t] EXCEPT !.pc = "277"])
          ELSE IF frame.units_str = "radians"
          THEN /\ locals' = [locals EXCEPT ![slot(t)].proj_data = py_str(item) \o <<"R">>]
               /\ calls' = Stepped(t, [calls[t] EXCEPT !.pc = "277"])
          ELSE /\ calls' = Stepped(t, [calls[t] EXCEPT !.pc = "done", !.result =
                    [raised |-> [type |-> "ValueError",
                                 msg |-> "Unrecognised angular units"],
                     value |-> <<>>]])
               /\ UNCHANGED locals
    /\ UNCHANGED <<heap, module_level, svars>>

\* Line 277: return proj_data.
EncodeReturn ==
  \E t \in Threads :
    /\ Running(t, "encode", "277")
    /\ calls' = Stepped(t, [calls[t] EXCEPT !.pc = "done", !.result =
         [raised |-> NoException, value |-> <<locals[slot(t)].proj_data>>]])
    /\ UNCHANGED <<locals, heap, module_level, svars>>

ThreadNext ==
  \/ ThreadCall
  \/ DecodeContext \/ DecodeMatch \/ DecodeNumeric \/ DecodeSuffix \/ DecodeReturn
  \/ EncodeSize \/ EncodeUnits \/ EncodeLists \/ EncodeBranch \/ EncodeReturn

ThreadSpec == Init /\ [][ThreadNext]_vars

TypeOK ==
  /\ op \in {"idle", "decode", "encode", "decode_encode", "encode_decode",
            "make_proj_string_comp", "construct", "get_proj_string",
            "eq", "hash"}
  /\ Len(gms) <= 2
  /\ Len(proj_strings) = Len(gms)
  /\ Len(cf_out) <= 1
  /\ Len(proj_out) <= 1

(***************************************************************************)
(* Properties.                                                             *)
(***************************************************************************)
SuffixChars == {"r", "R", "d", "D", "°"}

\* The last call was a decode / an encode.
Decoded == op \in {"decode", "encode_decode"}
Encoded == op \in {"encode", "decode_encode"}

\* s is a word of the language -?\d+(\.\d*)?[rRdD°]? : a sign of i
\* characters, digits up to j, a point and digits up to k, a suffix.
InGrammar(s) ==
  LET n == Len(s)
  IN \E i \in 0..1, j \in 1..n, k \in 1..n :
       /\ i < j /\ j <= k
       /\ i = 1 => s[1] = "-"
       /\ \A p \in (i + 1)..j : s[p] \in DigitChars
       /\ k > j => s[j + 1] = "." /\ \A p \in (j + 2)..k : s[p] \in DigitChars
       /\ k = n \/ (k = n - 1 /\ s[n] \in SuffixChars)

\* The text with its suffix character, if any, taken off.
Numeral(s) ==
  IF s /= <<>> /\ s[Len(s)] \in SuffixChars THEN SubSeq(s, 1, Len(s) - 1) ELSE s

HasPoint(s) == \E i \in 1..Len(s) : s[i] = "."
PointAt(s) == CHOOSE i \in 1..Len(s) : s[i] = "."
Unsigned(s) == IF s /= <<>> /\ s[1] = "-" THEN SubSeq(s, 2, Len(s)) ELSE s

\* The numeral is written the way the encoder writes a number: an integer
\* with no leading zero and no "-0"; or a decimal with no leading zero in
\* its whole part, at least one digit after the point, no trailing zero
\* after the first of them, at most 15 digits, and not below 0.0001 in
\* magnitude unless it is zero.
EncoderForm(num) ==
  LET u == Unsigned(num)
      whole == IF HasPoint(u) THEN SubSeq(u, 1, PointAt(u) - 1) ELSE u
      frac == IF HasPoint(u) THEN SubSeq(u, PointAt(u) + 1, Len(u)) ELSE <<>>
  IN /\ whole = <<"0">> \/ whole[1] /= "0"
     /\ Len(whole) + Len(frac) <= 15
     /\ IF HasPoint(u)
        THEN /\ frac /= <<>>
             /\ frac = <<"0">> \/ frac[Len(frac)] /= "0"
             /\ ~ ( /\ whole = <<"0">>
                    /\ Len(frac) >= 4
                    /\ SubSeq(frac, 1, 4) = <<"0", "0", "0", "0">> )
        ELSE num /= <<"-", "0">>

\* No suffix (degrees) or the suffix R (radians).
CanonicalSuffix(s) == s = Numeral(s) \/ s[Len(s)] = "R"

\* C1 as stated: every accepted text with no suffix or the suffix R comes
\* back from decode (default context) then encode exactly as it was.
C1_RoundTripAnyNumeral ==
  (op = "decode_encode" /\ CanonicalSuffix(proj_data)) => proj_out = <<proj_data>>

\* C1 amended: an accepted text with no suffix or the suffix R whose numeral
\* is written the way the encoder writes numbers comes back from decode
\* (default context) then encode exactly as it was.
C1_RoundTripEncoderForm ==
  ( /\ op = "decode_encode"
    /\ CanonicalSuffix(proj_data)
    /\ EncoderForm(Numeral(proj_data)) )
  => (raised = NoException /\ proj_out = <<proj_data>>)

C1_Witness ==
  /\ op = "decode_encode"
  /\ proj_data = <<"-", "1", "0", ".", "0", "1", "R">>
  /\ proj_out = <<proj_data>>

\* C2: a single-valued Data in 'degrees' or 'radians' is encoded, the text is
\* decoded with the default context, and the Data decoded has the same
\* magnitude and the same units.
C2_EncodeThenDecode ==
  /\ ( /\ op = "encode"
       /\ Len(data.array) = 1
       /\ data.Units \in {"degrees", "radians"} ) => raised = NoException
  /\ ( /\ op = "encode_decode"
       /\ data.Units \in {"degrees", "radians"} )
     => (raised = NoException /\ cf_out = <<data>>)

\* C3: decode returns a value exactly for the texts of the language
\* -?\d+(\.\d*)?[rRdD°]? ; for every other text it raises ValueError and
\* returns nothing.
C3_DecodeAcceptsExactlyTheGrammar ==
  Decoded =>
    IF InGrammar(proj_data)
    THEN raised = NoException /\ Len(cf_out) = 1
    ELSE raised.type = "ValueError" /\ cf_out = <<>>

C3_Witness ==
  /\ op = "decode"
  /\ proj_data = <<"1", ".", "1", ".", "1">>
  /\ raised.type = "ValueError"
  /\ cf_out = <<>>

\* A point with no digit after it.
PointWithoutDigit(s) ==
  \E i \in 1..Len(s) :
    s[i] = "." /\ (i = Len(s) \/ s[i + 1] \notin DigitChars)

\* C4 as stated: a numeral whose point is not followed by a digit, such as
\* "90." or "90.R", is rejected.
C4_PointNeedsDigit ==
  (Decoded /\ PointWithoutDigit(proj_data)) => raised.type = "ValueError"

\* The text is -?\d+\.[rRdD°]? : digits, a point, nothing after the point.
EndsWithPoint(s) ==
  LET num == Numeral(s)
      u == Unsigned(num)
  IN /\ Len(u) >= 2
     /\ u[Len(u)] = "."
     /\ \A i \in 1..(Len(u) - 1) : u[i] \in DigitChars

\* C4 amended: the grammar is -?DIGITS(.DIGITS*)?[suffix]? ; a numeral that
\* ends with its point, such as "90." or "90.R", is accepted and decoded as
\* the float equal to the digits before the point.
C4_TrailingPointAccepted ==
  (Decoded /\ EndsWithPoint(proj_data)) =>
    /\ raised = NoException
    /\ LET x == cf_out[1].array[1]
           ds == Unsigned(Numeral(proj_data))
           digits == SubSeq(ds, 1, Len(ds) - 1)
       IN /\ x.kind = "float"
          /\ x.e <= 0
          /\ DecDigits(x.m) \o Zeros(-x.e)
               = (IF DigitsValue(digits) = 0 THEN <<"0">>
                  ELSE SubSeq(digits, Len(digits) - Len(DecDigits(DigitsValue(digits))) + 1,
                              Len(digits)))

C4_Witness ==
  /\ op = "decode"
  /\ proj_data = <<"1", "0", ".", "R">>
  /\ raised = NoException
  /\ cf_out[1].array[1].kind = "float"

RECURSIVE Pow10(_)
Pow10(n) == IF n <= 0 THEN 1 ELSE 10 * Pow10(n - 1)

Suffix(s) == IF s = Numeral(s) THEN "" ELSE s[Len(s)]

\* The number x is the number that the numeral num writes: its digits read
\* as an integer and divided by ten for each digit after the point, negative
\* when the numeral has the minus sign.
SameMagnitude(x, num) ==
  LET u == Unsigned(num)
      whole == IF HasPoint(u) THEN SubSeq(u, 1, PointAt(u) - 1) ELSE u
      frac == IF HasPoint(u) THEN SubSeq(u, PointAt(u) + 1, Len(u)) ELSE <<>>
      D == DigitsValue(whole \o frac)
  IN /\ x.e <= Len(frac)
     /\ x.m * Pow10(Len(frac) - x.e) = D
     /\ D /= 0 => (x.neg <=> num[1] = "-")

\* C5: a valid numeral with suffix d, D, ° or none decodes to the number
\* written, unconverted, in 'degrees_north' for context 'lat', 'degrees_east'
\* for 'lon' and 'degrees' for no context.
C5_DegreesKeepMagnitude ==
  ( /\ op = "decode"
    /\ InGrammar(proj_data)
    /\ Suffix(proj_data) \notin {"r", "R"}
    /\ context \in {None, "lat", "lon"} )
  => /\ raised = NoException
     /\ Len(cf_out) = 1
     /\ cf_out[1].Units = (CASE context = "lat" -> "degrees_north"
                             [] context = "lon" -> "degrees_east"
                             [] context = None -> "degrees")
     /\ Len(cf_out[1].array) = 1
     /\ cf_out[1].array[1].conv = "none"
     /\ SameMagnitude(cf_out[1].array[1], Numeral(proj_data))

C5_Witness ==
  /\ op = "decode"
  /\ proj_data = <<"-", "1", "D">>
  /\ context = "lon"
  /\ cf_out[1].Units = "degrees_east"
  /\ cf_out[1].array[1].neg
  /\ cf_out[1].array[1].m = 1

\* C6: a valid numeral with suffix r or R decoded with no context is the
\* number written, unconverted, in 'radians'.
C6_RadiansKeptWithoutContext ==
  ( /\ op = "decode"
    /\ InGrammar(proj_data)
    /\ Suffix(proj_data) \in {"r", "R"}
    /\ context = None )
  => /\ raised = NoException
     /\ Len(cf_out) = 1
     /\ cf_out[1].Units = "radians"
     /\ cf_out[1].array[1].conv = "none"
     /\ SameMagnitude(cf_out[1].array[1], Numeral(proj_data))

C6_Witness ==
  /\ op = "decode"
  /\ proj_data = <<"1", ".", "1", "R">>
  /\ context = None
  /\ cf_out[1].Units = "radians"
  /\ cf_out[1].array[1].m = 11
  /\ cf_out[1].array[1].e = 1

\* C7: a valid numeral with suffix r or R decoded with context 'lat' or 'lon'
\* is the number written times 180/pi, in 'degrees_north' for 'lat' and
\* 'degrees_east' for 'lon', never in 'radians'.
C7_RadiansConvertedInContext ==
  ( /\ op = "decode"
    /\ InGrammar(proj_data)
    /\ Suffix(proj_data) \in {"r", "R"}
    /\ context \in {"lat", "lon"} )
  => /\ raised = NoException
     /\ Len(cf_out) = 1
     /\ cf_out[1].Units = (IF context = "lat" THEN "degrees_north" ELSE "degrees_east")
     /\ cf_out[1].Units /= "radians"
     /\ cf_out[1].array[1].conv = "rad2deg"
     /\ SameMagnitude(cf_out[1].array[1], Numeral(proj_data))

C7_Witness ==
  /\ op = "decode"
  /\ proj_data = <<"1", ".", "1", "R">>
  /\ context = "lat"
  /\ cf_out[1].Units = "degrees_north"
  /\ cf_out[1].array[1].conv = "rad2deg"
  /\ cf_out[1].array[1].m = 11

\* C8: the magnitude decoded is a float when the numeral has a point and an
\* int when it has none, whatever the suffix, except that radians converted
\* to degrees in a 'lat' or 'lon' context are a float.
C8_MagnitudeTypeFollowsText ==
  ( /\ op = "decode"
    /\ raised = NoException
    /\ context \in {None, "lat", "lon"} )
  => cf_out[1].array[1].kind =
       (IF Suffix(proj_data) \in {"r", "R"} /\ context \in {"lat", "lon"}
        THEN "float"
        ELSE IF HasPoint(proj_data) THEN "float" ELSE "int")

C8_Witness ==
  /\ op = "decode"
  /\ proj_data = <<"1", "0", "d">>
  /\ raised = NoException
  /\ cf_out[1].array[1].kind = "int"
  /\ cf_out[1].array[1].m = 10

\* The degree-family units the specification lists.
ListedDegreeUnits ==
  {"degrees",
   "degree_north", "degree_N", "degreeN",
   "degrees_north", "degrees_N", "degreesN",
   "degree_east", "degree_E", "degreeE",
   "degrees_east", "degrees_E", "degreesE"}

\* C9: the text encoded is the number alone for a degree-family unit and the
\* number followed by R for 'radians'; it never ends in d, D, ° or r.
C9_EncodeSuffix ==
  (Encoded /\ raised = NoException) =>
    LET x == data.array[1]
        out == proj_out[1]
    IN /\ data.Units \in ListedDegreeUnits => out = py_str(x)
       /\ data.Units = "radians" => out = py_str(x) \o <<"R">>
       /\ out = py_str(x) \/ out = py_str(x) \o <<"R">>
       /\ out[Len(out)] \in DigitChars \cup {"R"}

C9_Witness ==
  /\ op = "encode"
  /\ data.Units = "radians"
  /\ data.array = <<[kind |-> "int", neg |-> FALSE, m |-> 0, e |-> 0, conv |-> "none"]>>
  /\ proj_out = << <<"0", "R">> >>

\* C10 as stated: the units accepted are exactly 'degrees', the six latitude
\* forms, the six longitude forms and 'radians'; a value with any other unit
\* string fails with the unrecognised-units error.
C10_ListedVocabulary ==
  (Encoded /\ Len(data.array) = 1 /\ data.Units /= NoUnits) =>
    IF data.Units \in ListedDegreeUnits \cup {"radians"}
    THEN raised = NoException /\ Len(proj_out) = 1
    ELSE raised.msg = "Unrecognised angular units" /\ proj_out = <<>>

\* C10 amended: the units accepted are exactly 'degree', 'degrees', the six
\* latitude forms, the six longitude forms and 'radians'; a value with any
\* other unit string fails with the unrecognised-units error.
C10_VocabularyWithDegree ==
  (Encoded /\ Len(data.array) = 1 /\ data.Units /= NoUnits) =>
    IF data.Units \in ListedDegreeUnits \cup {"degree", "radians"}
    THEN raised = NoException /\ Len(proj_out) = 1
    ELSE /\ raised = [type |-> "ValueError", msg |-> "Unrecognised angular units"]
         /\ proj_out = <<>>

C10_Witness ==
  /\ op = "encode"
  /\ data.Units = "degree"
  /\ raised = NoException
  /\ proj_out = << <<"1", ".", "1">> >>

\* C11: encode fails with the size error, and returns no text, for every Data
\* whose element count is not 1 (none, or two or more), whatever its units.
C11_SizeError ==
  (op = "encode" /\ Len(data.array) /= 1) =>
    /\ raised = [type |-> "ValueError", msg |-> "Input cf.Data must have size 1"]
    /\ proj_out = <<>>

C11_Witness ==
  /\ op = "encode"
  /\ Len(data.array) = 0
  /\ data.Units = NoUnits
  /\ raised.msg = "Input cf.Data must have size 1"
  /\ proj_out = <<>>

\* C12: encode fails with the missing-units error, and returns no text, for
\* every single-valued Data that has no units.
C12_MissingUnitsError ==
  (op = "encode" /\ Len(data.array) = 1 /\ data.Units = NoUnits) =>
    /\ raised = [type |-> "ValueError", msg |-> "Must provide cf.Data with units"]
    /\ proj_out = <<>>

C12_Witness ==
  /\ op = "encode"
  /\ Len(data.array) = 1
  /\ data.array[1].m = 1
  /\ data.Units = NoUnits
  /\ raised.msg = "Must provide cf.Data with units"
  /\ proj_out = <<>>

\* C13: two instances of one class that hold different parameter values
\* emit different proj-strings.
C13_DifferentParametersDifferentStrings ==
  \A i, j \in 1..Len(gms) :
    ( /\ gms[i].cls = gms[j].cls
      /\ gms[i].attrs /= gms[j].attrs
      /\ proj_strings[i] /= <<>>
      /\ proj_strings[j] /= <<>> )
    => proj_strings[i] /= proj_strings[j]

\* The text of each value that a mapping of Mappings can hold.
Rendered(value) ==
  CASE value = StrValue(<<"b">>) -> <<"b">>
    [] value = NumValue(Float0) -> <<"0", ".", "0">>
    [] value = NumValue(NormalFloat(FALSE, 25, 1)) -> <<"2", ".", "5">>
    [] value.kind = "num" /\ value.x.kind = "int" /\ value.x.m = 1 -> <<"1">>
    [] OTHER -> <<>>

Stringifiable(sp) == \A i \in 1..Len(sp) : sp[i].value.kind /= "object"

\* The place in the string of the piece of entry i, and the place after the
\* last piece when i = Len(sp) + 1.
RECURSIVE PieceStart(_, _)
PieceStart(sp, i) ==
  IF i = 1 THEN 1
  ELSE PieceStart(sp, i - 1)
       + 3 + Len(sp[i - 1].comp) + Len(Rendered(sp[i - 1].value))

\* str is the pieces ' +key=value' of the entries of sp, in their order, and
\* nothing else.
IsAssemblyOf(str, sp) ==
  /\ Len(str) = PieceStart(sp, Len(sp) + 1) - 1
  /\ \A i \in 1..Len(sp) :
       LET at == PieceStart(sp, i)
           key == sp[i].comp
           text == Rendered(sp[i].value)
       IN /\ str[at] = " " /\ str[at + 1] = "+"
          /\ \A k \in 1..Len(key) : str[at + 1 + k] = key[k]
          /\ str[at + 2 + Len(key)] = "="
          /\ \A k \in 1..Len(text) : str[at + 2 + Len(key) + k] = text[k]

\* C14: for a mapping whose values all have a str, _make_proj_string_comp
\* returns the pieces ' +key=value' of its entries in iteration order (the
\* empty string for the empty mapping), and get_proj_string returns
\* '+proj=<proj_id>' followed by the pieces of the mapping it hands over.
C14_Assembly ==
  /\ (op = "make_proj_string_comp" /\ Stringifiable(mapping)) =>
       /\ raised = NoException
       /\ Len(proj_out) = 1
       /\ IsAssemblyOf(proj_out[1], mapping)
       /\ mapping = <<>> => proj_out[1] = <<>>
  /\ \A i \in 1..Len(gms) :
       proj_strings[i] /= <<>> =>
         LET str == proj_strings[i][1]
             id == proj_id(gms[i].cls)
         IN /\ SubSeq(str, 1, 6) = <<"+", "p", "r", "o", "j", "=">>
            /\ SubSeq(str, 7, 6 + Len(id)) = id
            /\ IsAssemblyOf(SubSeq(str, 7 + Len(id), Len(str)), DUMMY_PARAMS)

C14_Witness ==
  /\ op = "make_proj_string_comp"
  /\ Len(mapping) = 2
  /\ mapping[1].comp = <<"c">>
  /\ mapping[2].comp = <<"a">>
  /\ proj_out = << <<" ", "+", "c", "=", "2", ".", "5", " ", "+", "a", "=", "b">> >>

\* The last call was one of the three operations.
Converted ==
  op \in {"decode", "encode", "decode_encode", "encode_decode",
          "make_proj_string_comp"}

\* C15 as stated: every failure of decode, encode and proj-string assembly
\* is a ValueError.
C15_EveryFailureIsValueError ==
  (Converted /\ raised /= NoException) => raised.type = "ValueError"

\* C15: every failure of decode and of encode is a ValueError, and the
\* failure of proj-string assembly, on a value with no str, is a TypeError.
C15_FailureKinds ==
  /\ ((Decoded \/ Encoded) /\ raised /= NoException) => raised.type = "ValueError"
  /\ op = "make_proj_string_comp" =>
       /\ raised /= NoException <=> ~Stringifiable(mapping)
       /\ raised /= NoException => raised.type = "TypeError"

C15_Witness ==
  /\ op = "make_proj_string_comp"
  /\ Len(mapping) = 1
  /\ mapping[1].value = ObjectValue
  /\ raised.type = "TypeError"

\* C16: when some value of the mapping has no str, _make_proj_string_comp
\* raises and returns no string, whatever the entries before that value.
C16_AllOrNothing ==
  (op = "make_proj_string_comp" /\ ~Stringifiable(mapping)) =>
    /\ raised /= NoException
    /\ proj_out = <<>>

C16_Witness ==
  /\ op = "make_proj_string_comp"
  /\ Len(mapping) = 2
  /\ mapping[1].value = StrValue(<<"b">>)
  /\ mapping[2].value = ObjectValue
  /\ raised /= NoException
  /\ proj_out = <<>>

AxisNames == {"sweep_angle_axis", "fixed_angle_axis"}

\* C18: after a constructor call that returns, every documented parameter
\* that the caller supplied is an attribute with the value supplied (the
\* axes, which are stored in lower case, apart).
C18_SuppliedValuesStored ==
  (op = "construct" /\ raised = NoException) =>
    \A name \in (Documented(new.cls) \cap DOMAIN new.args) \ AxisNames :
      /\ name \in DOMAIN new.attrs
      /\ new.attrs[name] = new.args[name]

\* C19: AlbersEqualArea called without standard_parallel (and with no
\* unrecognised keyword) returns an instance whose standard_parallel is
\* (0.0, 0.0).
C19_StandardParallelOptional ==
  ( /\ op = "construct"
    /\ new.cls = "AlbersEqualArea"
    /\ "standard_parallel" \notin DOMAIN new.args
    /\ "units" \notin DOMAIN new.args )
  => /\ raised = NoException
     /\ "standard_parallel" \in DOMAIN new.attrs
     /\ new.attrs["standard_parallel"] = "(0.0, 0.0)"

\* The axes of the call, with the defaults of the signature, are opposite:
\* one is x and the other y, in either case of the letters.
OppositeAxes(args) ==
  LET sweep == IF "sweep_angle_axis" \in DOMAIN args THEN args["sweep_angle_axis"] ELSE "y"
      fixed == IF "fixed_angle_axis" \in DOMAIN args THEN args["fixed_angle_axis"] ELSE "x"
  IN \/ sweep \in {"x", "X"} /\ fixed \in {"y", "Y"}
     \/ sweep \in {"y", "Y"} /\ fixed \in {"x", "X"}

\* C20: a Geostationary call returns only when its axes are opposite, and
\* raises ValueError when they are not (the height being given); it returns
\* when they are and nothing else is wrong with the call.  Every
\* Geostationary instance holds the axes in lower case, one "x" and the
\* other "y", the letter being the one supplied, or sweep "y" and fixed "x"
\* for an axis left out.
C20_GeostationaryAxes ==
  /\ (op = "construct" /\ new.cls = "Geostationary") =>
       /\ raised = NoException => OppositeAxes(new.args)
       /\ (~OppositeAxes(new.args) /\ "perspective_point_height" \in DOMAIN new.args)
            => raised.type = "ValueError"
       /\ ( /\ ~OppositeAxes(new.args)
            /\ "perspective_point_height" \in DOMAIN new.args
            /\ "units" \notin DOMAIN new.args )
            => raised.msg = "The sweep_angle_axis must be the opposite value, from 'x' and 'y', to the fixed_angle_axis."
       /\ ( /\ OppositeAxes(new.args)
            /\ "perspective_point_height" \in DOMAIN new.args
            /\ "units" \notin DOMAIN new.args )
            => raised = NoException
  /\ \A i \in 1..Len(gms) :
       gms[i].cls = "Geostationary" =>
         LET args == gms[i].args
             attrs == gms[i].attrs
         IN /\ AxisNames \subseteq DOMAIN attrs
            /\ {attrs["sweep_angle_axis"], attrs["fixed_angle_axis"]} = {"x", "y"}
            /\ attrs["fixed_angle_axis"] = "x" <=> attrs["sweep_angle_axis"] = "y"
            /\ "sweep_angle_axis" \notin DOMAIN args => attrs["sweep_angle_axis"] = "y"
            /\ "fixed_angle_axis" \notin DOMAIN args => attrs["fixed_angle_axis"] = "x"
            /\ "sweep_angle_axis" \in DOMAIN args =>
                 (attrs["sweep_angle_axis"] = "x" <=> args["sweep_angle_axis"] \in {"x", "X"})
            /\ "fixed_angle_axis" \in DOMAIN args =>
                 (attrs["fixed_angle_axis"] = "x" <=> args["fixed_angle_axis"] \in {"x", "X"})

C20_Witness ==
  /\ op = "construct"
  /\ new.cls = "Geostationary"
  /\ raised = NoException
  /\ DOMAIN new.args = {"perspective_point_height", "sweep_angle_axis", "fixed_angle_axis"}
  /\ new.args["sweep_angle_axis"] = "X"
  /\ new.args["fixed_angle_axis"] = "Y"
  /\ new.attrs["sweep_angle_axis"] = "x"
  /\ new.attrs["fixed_angle_axis"] = "y"

\* C17: whatever lines of other calls run in the midst of a call, the call
\* ends as the same call made alone ends: with the same exception, or the
\* same value returned.  No call changes a Data that a caller holds, or a
\* name bound at module level.
C17_CallsIndependent ==
  /\ \A t \in Threads :
       calls[t].pc = "done" =>
         calls[t].result =
           IF calls[t].fn = "decode"
           THEN convert_proj_angular_data_to_cf(calls[t].proj_data, calls[t].context)
           ELSE convert_cf_angular_data_to_proj(HeapData[calls[t].data])
  /\ heap = HeapData
  /\ module_level = ModuleLevel

C17_Witness ==
  /\ calls["t1"].fn = "decode"
  /\ calls["t1"].pc = "done"
  /\ calls["t1"].overlapped
  /\ calls["t1"].result.raised.type = "ValueError"
  /\ calls["t2"].fn = "encode"
  /\ calls["t2"].pc = "done"
  /\ calls["t2"].overlapped
  /\ calls["t2"].data = 1
  /\ calls["t2"].result.value = << <<"1", ".", "5">> >>

\* The caller gave the parameter a value other than zero.
NonZero(args, name) == name \in DOMAIN args /\ args[name] /= "0.0"

BothLongitudesSet(args) ==
  /\ NonZero(args, "longitude_of_projection_origin")
  /\ NonZero(args, "straight_vertical_longitude_from_pole")

\* C21: a PolarStereographic call (with no unrecognised keyword) raises
\* ValueError when longitude_of_projection_origin and
\* straight_vertical_longitude_from_pole are both given and non-zero, and
\* returns an instance when at most one of them is.
C21_MutualExclusion ==
  ( /\ op = "construct"
    /\ new.cls = "PolarStereographic"
    /\ "units" \notin DOMAIN new.args )
  => IF BothLongitudesSet(new.args)
     THEN /\ raised = [type |-> "ValueError",
                       msg |-> "Only one of 'longitude_of_projection_origin' and 'straight_vertical_longitude_from_pole' can be set."]
          /\ \A i \in 1..Len(gms) : gms[i] /= new
     ELSE /\ raised = NoException
          /\ gms /= <<>>
          /\ gms[Len(gms)] = new

C21_Witness ==
  /\ op = "construct"
  /\ new.cls = "PolarStereographic"
  /\ DOMAIN new.args = {"longitude_of_projection_origin",
                        "straight_vertical_longitude_from_pole"}
  /\ new.args["longitude_of_projection_origin"] = "2.5"
  /\ new.args["straight_vertical_longitude_from_pole"] = "2.5"
  /\ raised.type = "ValueError"

\* The keywords of the call in new that are no grid mapping attribute name:
\* of the keywords of the calls, "units" alone is none.
Unrecognised == DOMAIN new.args \cap {"units"}

UnrecognisedError(kwarg) ==
  [type |-> "ValueError",
   msg |-> "Unrecognised map parameter provided for the Grid Mapping: " \o kwarg]

\* C22 as stated: every constructor call with an unrecognised keyword raises
\* the ValueError that names it, with no attribute set.
C22_UnrecognisedKeywordRaisesValueError ==
  (op = "construct" /\ Unrecognised /= {}) =>
    /\ \E kwarg \in Unrecognised : raised = UnrecognisedError(kwarg)
    /\ new.attrs = NoAttrs

\* C22: a constructor call that gives every parameter without default, and
\* an unrecognised keyword, raises the ValueError that names the keyword,
\* with no attribute set and no instance built; a call that leaves out a
\* parameter without default raises TypeError instead, whatever its
\* keywords.
C22_UnrecognisedKeyword ==
  (op = "construct" /\ Unrecognised /= {}) =>
    /\ new.attrs = NoAttrs
    /\ \A i \in 1..Len(gms) : gms[i] /= new
    /\ IF Required(new.cls) \subseteq DOMAIN new.args
       THEN \E kwarg \in Unrecognised : raised = UnrecognisedError(kwarg)
       ELSE raised.type = "TypeError"

C22_Witness ==
  /\ op = "construct"
  /\ new.cls = "Geostationary"
  /\ DOMAIN new.args = {"perspective_point_height", "sweep_angle_axis", "units"}
  /\ new.args["sweep_angle_axis"] = "z"
  /\ raised = UnrecognisedError("units")
  /\ new.attrs = NoAttrs

\* C23: encode reports the first of its preconditions that fails, in the
\* order element count, presence of units, units in the vocabulary: a Data
\* of two or no elements fails with the size error even when it has no units
\* or units outside the vocabulary, and a Data of one element without units
\* fails with the missing-units error, not the vocabulary error.
C23_CheckOrder ==
  op = "encode" =>
    LET badSize == Len(data.array) /= 1
        noUnits == data.Units = NoUnits
        badUnits == data.Units \notin (ListedDegreeUnits \cup {"degree", "radians"})
    IN /\ badSize => raised.msg = "Input cf.Data must have size 1"
       /\ (~badSize /\ noUnits) => raised.msg = "Must provide cf.Data with units"
       /\ (~badSize /\ ~noUnits /\ badUnits) => raised.msg = "Unrecognised angular units"
       /\ (~badSize /\ ~noUnits /\ ~badUnits) => raised = NoException

C23_Witness ==
  /\ op = "encode"
  /\ Len(data.array) = 2
  /\ data.Units = "kelvin"
  /\ raised.msg = "Input cf.Data must have size 1"
  /\ proj_out = <<>>

\* C24: decode accepts every context: whether it succeeds depends on the
\* text alone.  The unit returned is radians exactly when the suffix is r or
\* R and the context is None or empty; with r or R and any other context
\* the magnitude is converted to degrees, and the unit is degrees_north for
\* lat, degrees_east for lon and degrees otherwise (as it is without r or R).
C24_ContextNotValidated ==
  op = "decode" =>
    /\ raised = NoException <=> InGrammar(proj_data)
    /\ raised = NoException =>
         LET out == cf_out[1]
             radians == proj_data[Len(proj_data)] \in {"r", "R"}
             empty == context \in {None, ""}
         IN /\ out.Units = "radians" <=> (radians /\ empty)
            /\ out.array[1].conv = "rad2deg" <=> (radians /\ ~empty)
            /\ ~(radians /\ empty) =>
                 out.Units = (CASE context = "lat" -> "degrees_north"
                                [] context = "lon" -> "degrees_east"
                                [] OTHER -> "degrees")
            /\ out.Units \in {"degrees", "degrees_north", "degrees_east", "radians"}

C24_Witness ==
  /\ op = "decode"
  /\ context = "grid"
  /\ proj_data = <<"1", "R">>
  /\ raised = NoException
  /\ cf_out[1].Units = "degrees"
  /\ cf_out[1].array[1].conv = "rad2deg"

\* C25: x == y is true exactly when the classes of x and y have the same
\* proj_id, whatever the two were constructed with: two instances of one
\* class are equal though their attributes differ, and so are a
\* RotatedLatitudeLongitude and a LatitudeLongitude.
C25_EqualIffSameProjId ==
  op = "eq" =>
    LET x == gms[eq_out.self]
        y == gms[eq_out.other]
    IN /\ raised = NoException
       /\ eq_out.value = <<proj_id(x.cls) = proj_id(y.cls)>>
       /\ x.cls = y.cls => eq_out.value = <<TRUE>>
       /\ {x.cls, y.cls} = {"RotatedLatitudeLongitude", "LatitudeLongitude"}
            => eq_out.value = <<TRUE>>
       /\ {x.cls, y.cls} \cap {"RotatedLatitudeLongitude", "LatitudeLongitude"} = {}
            => (eq_out.value = <<TRUE>> <=> x.cls = y.cls)

C25_Witness ==
  /\ op = "eq"
  /\ eq_out.self = 1
  /\ eq_out.other = 2
  /\ gms[1].cls = "RotatedLatitudeLongitude"
  /\ gms[2].cls = "LatitudeLongitude"
  /\ eq_out.value = <<TRUE>>

\* Instances of one class with different attributes compare equal.
C25_WitnessSameClass ==
  /\ op = "eq"
  /\ eq_out.self = 1
  /\ eq_out.other = 2
  /\ gms[1].cls = "Sinusoidal"
  /\ gms[2].cls = "Sinusoidal"
  /\ gms[1].attrs /= gms[2].attrs
  /\ eq_out.value = <<TRUE>>

\* C26: hash(x) returns, with the hash of the proj-string of x (a str is
\* written for its hash).
C26_HashOfProjString ==
  op = "hash" =>
    /\ raised = NoException
    /\ hash_out.value = get_proj_string(gms[hash_out.self].cls).value

====
